---- MODULE Spec2Model ----
(***************************************************************************)
(* A model of avtocod's aiohttp session layer                              *)
(* (src/avtocod/session/aiohttp.py): the proxy resolution functions        *)
(* _retrieve_basic and _prepare_connector, the request serializer          *)
(* build_data, and the lifecycle of the ClientSession owned by one         *)
(* AiohttpSession instance that several asyncio tasks ("flows") use.       *)
(***************************************************************************)
EXTENDS Integers, Sequences, FiniteSets, TLC

(***************************************************************************)
(* Bounds of the model.                                                    *)
(***************************************************************************)
\* Number of concurrent flows (asyncio tasks) sharing the instance.
NumFlows == 2
\* Number of ClientSession objects the instance may create in one run.
MaxSessions == 3
\* Length of the longest proxy chain drawn as an input of the resolver.
MaxChain == 2

Flows == 1..NumFlows

(***************************************************************************)
(* Python values.  A value is a record tagged with its type.  A str that   *)
(* holds a URL carries the URL as its sequence of lexical tokens, so that  *)
(* parsing is a computation on the text.                                   *)
(***************************************************************************)
PyNone == [t |-> "None"]
PyStr(tokens) == [t |-> "str", s |-> tokens]
PyTuple(items) == [t |-> "tuple", items |-> items]
PyList(items) == [t |-> "list", items |-> items]
BasicAuth(login, password) == [t |-> "BasicAuth", login |-> login, password |-> password]

\* How a call ends: with the exception it raised, or with the value it returned.
Raised(exc) == [exc |-> exc]
Value(value) == [exc |-> "", value |-> value]

(***************************************************************************)
(* The environment: aiohttp_socks is an optional dependency, imported      *)
(* inside the functions that need it (lines 22 and 49).                    *)
(***************************************************************************)
VARIABLE aiohttp_socks        \* TRUE when the package aiohttp_socks can be imported

(***************************************************************************)
(* aiohttp_socks.utils.parse_proxy_url, as _retrieve_basic calls it:       *)
(* urlparse splits scheme://[user:password@]host:port; the scheme selects  *)
(* the ProxyType, the port is converted to an integer, and credentials     *)
(* that are not both present come back as empty strings.                   *)
(***************************************************************************)
FirstIndex(seq, tok) ==
    IF \E i \in 1..Len(seq) : seq[i] = tok
    THEN CHOOSE i \in 1..Len(seq) : seq[i] = tok /\ \A j \in 1..(i - 1) : seq[j] # tok
    ELSE 0

LastIndex(seq, tok) ==
    IF \E i \in 1..Len(seq) : seq[i] = tok
    THEN CHOOSE i \in 1..Len(seq) : seq[i] = tok /\ \A j \in (i + 1)..Len(seq) : seq[j] # tok
    ELSE 0

\* int() of a port's text; -1 stands for the ValueError of a non-numeric port.
PortNumber(digits) ==
    CASE digits = "1080" -> 1080
      [] digits = "8080" -> 8080
      [] digits = "3128" -> 3128
      [] OTHER -> -1

ProxyTypeOf(scheme) ==
    CASE scheme = "socks5" -> "SOCKS5"
      [] scheme = "socks4" -> "SOCKS4"
      [] scheme = "http" -> "HTTP"
      [] OTHER -> ""

\* The user and the password of userinfo, the text before the last "@" of the
\* network location: both are empty unless both are present.
Credentials(userinfo) ==
    IF Len(userinfo) = 3 /\ userinfo[2] = ":"
    THEN <<userinfo[1], userinfo[3]>>
    ELSE IF Len(userinfo) = 2 /\ userinfo[2] = ":"
    THEN <<userinfo[1], "">>
    ELSE <<"", "">>

\* The parts of a URL to parse_proxy_url's result: hostport is the text after the
\* last "@" of the network location.
ParsedParts(proxy_type, userinfo, hostport) ==
    IF \/ proxy_type = ""
       \/ Len(hostport) # 3
       \/ hostport[2] # ":"
       \/ PortNumber(hostport[3]) < 0
    THEN Raised("ValueError")
    ELSE Value([proxy_type |-> proxy_type,
                host |-> hostport[1],
                port |-> PortNumber(hostport[3]),
                username |-> Credentials(userinfo)[1],
                password |-> Credentials(userinfo)[2]])

ParsedNetloc(proxy_type, netloc, at) ==
    ParsedParts(proxy_type, SubSeq(netloc, 1, at - 1), SubSeq(netloc, at + 1, Len(netloc)))

ParsedUrl(proxy_type, netloc) == ParsedNetloc(proxy_type, netloc, LastIndex(netloc, "@"))

parse_proxy_url(url) ==
    IF Len(url) < 3 \/ url[2] # "://"
    THEN Raised("ValueError")
    ELSE ParsedUrl(ProxyTypeOf(url[1]), SubSeq(url, 3, Len(url)))

(***************************************************************************)
(* _retrieve_basic: one proxy (a URL, or a pair of a URL and a BasicAuth)  *)
(* to the keyword arguments of a proxy connector.                          *)
(***************************************************************************)
\* A _retrieve_basic that takes the credentials of proxy_auth only when the URL
\* embeds none.
RetrievedUrlFirst(parsed, proxy_auth) ==
    IF parsed.exc # ""
    THEN parsed
    ELSE Value([proxy_type |-> parsed.value.proxy_type,
                host |-> parsed.value.host,
                port |-> parsed.value.port,
                username |-> IF proxy_auth.t = "BasicAuth" /\ parsed.value.username = ""
                             THEN proxy_auth.login
                             ELSE parsed.value.username,
                password |-> IF proxy_auth.t = "BasicAuth" /\ parsed.value.username = ""
                             THEN proxy_auth.password
                             ELSE parsed.value.password,
                rdns |-> TRUE])

\* Lines 32-43: the parsed URL with the credentials of proxy_auth, when that is a
\* BasicAuth, in place of the URL's.
Retrieved(parsed, proxy_auth) ==
    IF parsed.exc # ""
    THEN parsed
    ELSE Value([proxy_type |-> parsed.value.proxy_type,
                host |-> parsed.value.host,
                port |-> parsed.value.port,
                username |-> IF proxy_auth.t = "BasicAuth"
                             THEN proxy_auth.login
                             ELSE parsed.value.username,
                password |-> IF proxy_auth.t = "BasicAuth"
                             THEN proxy_auth.password
                             ELSE parsed.value.password,
                rdns |-> TRUE])

\* Line 31, for the proxy_url and proxy_auth of lines 24-29.
RetrievedFrom(proxy_url, proxy_auth) ==
    IF proxy_url.t # "str"
    THEN Raised("TypeError")
    ELSE Retrieved(parse_proxy_url(proxy_url.s), proxy_auth)

_retrieve_basic(basic) ==
    IF ~aiohttp_socks
    THEN Raised("ImportError")
    ELSE IF basic.t = "str"
    THEN RetrievedFrom(basic, PyNone)
    ELSE IF basic.t \notin {"tuple", "list"}
    THEN Raised("TypeError")
    ELSE IF Len(basic.items) # 2
    THEN Raised("ValueError")
    ELSE RetrievedFrom(basic.items[1], basic.items[2])

(***************************************************************************)
(* _prepare_connector: a proxy specification to the connector class and    *)
(* its keyword arguments.                                                  *)
(***************************************************************************)
\* The for loop of lines 60-62: the ProxyInfo of each element, in order, or the
\* first exception raised.
RECURSIVE ChainInfos(_, _)
Extended(rest, infos, basic) ==
    IF basic.exc # ""
    THEN basic
    ELSE ChainInfos(rest, Append(infos, basic.value))

ChainInfos(items, infos) ==
    IF items = << >>
    THEN Value(infos)
    ELSE Extended(Tail(items), infos, _retrieve_basic(Head(items)))

\* A test that takes every sequence of two elements for one proxy.
IsBasicAnyPair(chain_or_plain) ==
    \/ chain_or_plain.t = "str"
    \/ (chain_or_plain.t \in {"tuple", "list"} /\ Len(chain_or_plain.items) = 2)

\* The test of lines 53-55: the specification is one proxy, not a chain.
IsBasic(chain_or_plain) ==
    \/ chain_or_plain.t = "str"
    \/ (chain_or_plain.t = "tuple" /\ Len(chain_or_plain.items) = 2)

\* Line 57.
Plain(basic) ==
    IF basic.exc # ""
    THEN basic
    ELSE Value([connector_type |-> "ProxyConnector", connector_init |-> basic.value])

\* Line 64.
Chained(infos) ==
    IF infos.exc # ""
    THEN infos
    ELSE Value([connector_type |-> "ChainProxyConnector",
                connector_init |-> [proxy_infos |-> infos.value]])

_prepare_connector(chain_or_plain) ==
    IF ~aiohttp_socks
    THEN Raised("ImportError")
    ELSE IF IsBasic(chain_or_plain)
    THEN Plain(_retrieve_basic(chain_or_plain))
    ELSE IF chain_or_plain.t \notin {"tuple", "list"}
    THEN Raised("TypeError")
    ELSE Chained(ChainInfos(chain_or_plain.items, << >>))

(***************************************************************************)
(* build_data: the request's fields to the body of the POST.               *)
(***************************************************************************)
UNSET == [t |-> "UNSET"]
PyInt(n) == [t |-> "int", n |-> n]

\* BaseSession.prepare_value: the transport form of one field's value.
prepare_value(value) == [prepared |-> value]

\* BaseSession.json_dumps: the JSON text of an object, as its members in order.
json_dumps(data) == [json |-> data]

\* A build_data that skips the UNSET fields only.
SkippedWhenUnset(value) == value = UNSET

\* The test of line 116: the fields build_data skips.
Skipped(value) == value = PyNone \/ value = UNSET

\* The for loop of build_data over request.items(), a sequence of <<key, value>>.
RECURSIVE BuildLoop(_, _)
BuildLoop(items, data) ==
    IF items = << >>
    THEN data
    ELSE LET key == Head(items)[1]
             value == Head(items)[2]
         IN  IF Skipped(value)
             THEN BuildLoop(Tail(items), data)
             ELSE BuildLoop(Tail(items), Append(data, <<key, prepare_value(value)>>))

build_data(request) == json_dumps(BuildLoop(request, << >>))

(***************************************************************************)
(* The state of one AiohttpSession instance and of the flows that use it.  *)
(***************************************************************************)
VARIABLES
    _session,                 \* self._session: 0 for None, else an index of sessions
    _connector_type,          \* self._connector_type
    _connector_init,          \* self._connector_init
    _should_reset_connector,  \* self._should_reset_connector
    _proxy,                   \* self._proxy
    sessions,                 \* every ClientSession the instance has constructed
    pc,                       \* each flow's position
    session,                  \* each flow's local session in _make_request (0: none)
    posted,                   \* the latest POST issued: the request and its body
    result,                   \* how the latest finished call ended
    stale,                    \* history: how many sessions had been constructed at
                              \* the latest successful assignment of the proxy
    began,                    \* history: for a flow suspended in create_session,
                              \* the value of stale when that call started
    context,                  \* ContextInstanceMixin: the value of each subclass's
                              \* ContextVar in the current Context
    tokens,                   \* ContextInstanceMixin: the Tokens set_current returned
    current                   \* ContextInstanceMixin: how the latest call ended

\* The variables of the instance and of the flows that use it.
instance == <<_session, _connector_type, _connector_init, _should_reset_connector,
              _proxy, sessions, pc, session, posted, result>>

\* The history variables: no action of the instance reads or writes them.
history == <<stale, began>>

\* The variables of ContextInstanceMixin.
mixin == <<context, tokens, current>>

vars == <<aiohttp_socks, instance, history, mixin>>

fields == <<_session, _connector_type, _connector_init, _should_reset_connector,
            _proxy, sessions>>

\* The empty dict of keyword arguments.
EmptyDict == << >>

\* A call that returned value (0 for None, else a session), or raised exc(msg).
Returned(op, value) == [exc |-> "", value |-> value, op |-> op, msg |-> << >>]
Failed(op, exc, msg) == [exc |-> exc, value |-> 0, op |-> op, msg |-> msg]

(***************************************************************************)
(* __init__                                                                *)
(***************************************************************************)
\* The exception __init__ ends with for what _setup_proxy_connector raised.
InitRaises(exc) == IF exc = "ImportError" THEN "RuntimeError" ELSE exc

\* Lines 71-84, prepared being what _setup_proxy_connector met in
\* _prepare_connector (nothing when proxy is None).
Constructed(proxy, prepared) ==
    /\ _session = 0
    /\ _connector_type =
           IF prepared.exc = "" /\ proxy # PyNone
           THEN prepared.value.connector_type ELSE "TCPConnector"
    /\ _connector_init =
           IF prepared.exc = "" /\ proxy # PyNone
           THEN prepared.value.connector_init ELSE EmptyDict
    /\ _should_reset_connector = TRUE
    /\ _proxy = IF prepared.exc = "" THEN proxy ELSE PyNone
    /\ sessions = << >>
    /\ pc = [f \in Flows |-> IF prepared.exc = "" THEN "idle" ELSE "unborn"]
    /\ session = [f \in Flows |-> 0]
    /\ posted = PyNone
    /\ result = IF prepared.exc = ""
                THEN Returned("__init__", 0)
                ELSE Failed("__init__", InitRaises(prepared.exc), << >>)

Construct(proxy) ==
    IF proxy = PyNone
    THEN Constructed(proxy, Value(PyNone))
    ELSE Constructed(proxy, _prepare_connector(proxy))

(***************************************************************************)
(* The proxy setter and _setup_proxy_connector                             *)
(***************************************************************************)
\* A setter that leaves the flag as it was.
FlagKept == _should_reset_connector

\* The value the setter leaves in _should_reset_connector (line 97).
FlagAfterSet == TRUE

\* A setter that closes the open session at once.
AssignedClosing(f, proxy, prepared) ==
    /\ pc[f] = "idle"
    /\ IF prepared.exc # ""
       THEN /\ result' = Failed("proxy", prepared.exc, << >>)
            /\ UNCHANGED <<fields, pc, session, posted>>
       ELSE /\ _connector_type' = prepared.value.connector_type
            /\ _connector_init' = prepared.value.connector_init
            /\ _proxy' = proxy
            /\ _should_reset_connector' = TRUE
            /\ sessions' = [i \in DOMAIN sessions |->
                             [sessions[i] EXCEPT !.closed = TRUE]]
            /\ result' = Returned("proxy", 0)
            /\ UNCHANGED <<_session, pc, session, posted>>

\* A setter that stores the proxy before it resolves it.
AssignedStoringFirst(f, proxy, prepared) ==
    /\ pc[f] = "idle"
    /\ _proxy' = proxy
    /\ IF prepared.exc # ""
       THEN /\ result' = Failed("proxy", prepared.exc, << >>)
            /\ UNCHANGED <<_session, _connector_type, _connector_init,
                           _should_reset_connector, sessions, pc, session, posted>>
       ELSE /\ _connector_type' = prepared.value.connector_type
            /\ _connector_init' = prepared.value.connector_init
            /\ _should_reset_connector' = TRUE
            /\ result' = Returned("proxy", 0)
            /\ UNCHANGED <<_session, sessions, pc, session, posted>>

\* Lines 87-88 and 97, prepared being what _prepare_connector ended with.
Assigned(f, proxy, prepared) ==
    /\ pc[f] = "idle"
    /\ IF prepared.exc # ""
       THEN /\ result' = Failed("proxy", prepared.exc, << >>)
            /\ UNCHANGED <<fields, pc, session, posted>>
       ELSE /\ _connector_type' = prepared.value.connector_type
            /\ _connector_init' = prepared.value.connector_init
            /\ _proxy' = proxy
            /\ _should_reset_connector' = FlagAfterSet
            /\ result' = Returned("proxy", 0)
            /\ UNCHANGED <<_session, sessions, pc, session, posted>>

SetProxy(f, proxy) == Assigned(f, proxy, _prepare_connector(proxy))

(***************************************************************************)
(* close and create_session                                                *)
(***************************************************************************)
\* A close that does not look at the session's closed flag.
IsOpenUnchecked(ss) == _session # 0

\* The test of line 110: there is a session and it is not closed.
IsOpen(ss) == _session # 0 /\ ~ss[_session].closed

\* ClientSession.close() on self._session: the session is closed when the call
\* first suspends, and the caller resumes later.
SessionClose(ss) == [ss EXCEPT ![_session].closed = TRUE, ![_session].closes = @ + 1]

\* A create_session that closes the session whatever the flag.
MustResetAlways == TRUE

\* A create_session that never closes the session.
MustResetNever == FALSE

\* The test of line 100: create_session closes the session first.
MustReset == _should_reset_connector

\* A create_session that constructs a session whatever the state of the current one.
NeedsNewAlways(ss) == TRUE

\* A create_session that constructs a session only when there is none.
NeedsNewWhenNone(ss) == _session = 0

\* The test of line 103: create_session constructs a session.
NeedsNew(ss) == _session = 0 \/ ss[_session].closed

\* ClientSession(connector=self._connector_type(**self._connector_init))
NewSession == [connector_type |-> _connector_type,
               connector_init |-> _connector_init,
               closed |-> FALSE,
               closes |-> 0]

\* A create_session that clears the flag whether it constructs a session or not.
AcquireClearing(ss) ==
    /\ NeedsNew(ss) => Len(ss) < MaxSessions
    /\ sessions' = IF NeedsNew(ss) THEN Append(ss, NewSession) ELSE ss
    /\ _session' = IF NeedsNew(ss) THEN Len(ss) + 1 ELSE _session
    /\ _should_reset_connector' = FALSE
    /\ UNCHANGED <<_connector_type, _connector_init, _proxy>>

\* Lines 103-107, on the sessions ss: create_session returns self._session.
Acquire(ss) ==
    /\ NeedsNew(ss) => Len(ss) < MaxSessions
    /\ sessions' = IF NeedsNew(ss) THEN Append(ss, NewSession) ELSE ss
    /\ _session' = IF NeedsNew(ss) THEN Len(ss) + 1 ELSE _session
    /\ _should_reset_connector' = IF NeedsNew(ss) THEN FALSE ELSE _should_reset_connector
    /\ UNCHANGED <<_connector_type, _connector_init, _proxy>>

\* What follows create_session's return in its caller op: create_session itself and
\* __aenter__ return; _make_request builds the body of some request and posts it.
Continue(f, op, requests) ==
    IF op = "_make_request"
    THEN /\ \E request \in requests :
                posted' = [data |-> build_data(request), request |-> request]
         /\ session' = [session EXCEPT ![f] = _session']
         /\ pc' = [pc EXCEPT ![f] = "_make_request.post"]
         /\ UNCHANGED result
    ELSE /\ pc' = [pc EXCEPT ![f] = "idle"]
         /\ result' = Returned(op, _session')
         /\ UNCHANGED <<session, posted>>

\* The position of a flow suspended in close() at line 101, called from op.
Closing(op) ==
    CASE op = "create_session" -> "create_session.close"
      [] op = "__aenter__" -> "__aenter__.close"
      [] op = "_make_request" -> "_make_request.close"

\* A call of create_session by flow f, from op: it runs to its return, or suspends
\* in close() at line 101.
Call(f, op, requests) ==
    /\ pc[f] = "idle"
    /\ IF MustReset /\ IsOpen(sessions)
       THEN /\ sessions' = SessionClose(sessions)
            /\ pc' = [pc EXCEPT ![f] = Closing(op)]
            /\ UNCHANGED <<_session, _connector_type, _connector_init,
                           _should_reset_connector, _proxy, session, posted, result>>
       ELSE /\ Acquire(sessions)
            /\ Continue(f, op, requests)

\* Flow f resumes in create_session after close() at line 101.
Resume(f, op, requests) ==
    /\ pc[f] = Closing(op)
    /\ Acquire(sessions)
    /\ Continue(f, op, requests)

\* close(), called by flow f.
Close(f) ==
    /\ pc[f] = "idle"
    /\ IF IsOpen(sessions)
       THEN /\ sessions' = SessionClose(sessions)
            /\ pc' = [pc EXCEPT ![f] = "close.close"]
            /\ UNCHANGED result
       ELSE /\ result' = Returned("close", 0)
            /\ UNCHANGED <<sessions, pc>>
    /\ UNCHANGED <<_session, _connector_type, _connector_init,
                   _should_reset_connector, _proxy, session, posted>>

\* Flow f resumes in close() after the session's close() and returns.
CloseReturn(f) ==
    /\ pc[f] = "close.close"
    /\ pc' = [pc EXCEPT ![f] = "idle"]
    /\ result' = Returned("close", 0)
    /\ UNCHANGED <<fields, session, posted>>

(***************************************************************************)
(* _make_request, from the POST on                                         *)
(***************************************************************************)
\* What the POST and the reading of the response can end with: a body that
\* check_response accepts or rejects, or an exception of the transport.
Accepted == [kind |-> "result"]
Rejected == [kind |-> "raise", class |-> "APIError", base |-> "APIError",
             text |-> "declared error"]
TimedOut == [kind |-> "raise", class |-> "TimeoutError", base |-> "TimeoutError",
             text |-> ""]
Refused == [kind |-> "raise", class |-> "ClientConnectorError", base |-> "ClientError",
            text |-> "Cannot connect to host"]
ProxyFailed == [kind |-> "raise", class |-> "ProxyError", base |-> "Exception",
                text |-> "Could not connect to proxy"]

Outcomes(connector_type) ==
    {Accepted, Rejected, TimedOut, Refused}
        \cup (IF connector_type = "TCPConnector" THEN {} ELSE {ProxyFailed})

\* A _make_request whose handler of ClientError takes the timeout too.
RequestEndsUnsorted(outcome) ==
    IF outcome.kind = "result"
    THEN Returned("_make_request", 0)
    ELSE IF outcome.base \in {"ClientError", "TimeoutError"}
    THEN Failed("_make_request", "NetworkError",
                <<"aiohttp client throws an error: ", outcome.class, ": ", outcome.text>>)
    ELSE Failed("_make_request", outcome.class, <<outcome.text>>)

\* The try statement of lines 129-142: how _make_request ends on an outcome.
RequestEnds(outcome) ==
    IF outcome.kind = "result"
    THEN Returned("_make_request", 0)
    ELSE IF outcome.base = "TimeoutError"
    THEN Failed("_make_request", "NetworkError", <<"Request timeout error">>)
    ELSE IF outcome.base = "ClientError"
    THEN Failed("_make_request", "NetworkError",
                <<"aiohttp client throws an error: ", outcome.class, ": ", outcome.text>>)
    ELSE Failed("_make_request", outcome.class, <<outcome.text>>)

\* Flow f resumes in _make_request when its POST ends with outcome.
RespondWith(f, outcome) ==
    /\ pc[f] = "_make_request.post"
    /\ result' = RequestEnds(outcome)
    /\ pc' = [pc EXCEPT ![f] = "idle"]
    /\ session' = [session EXCEPT ![f] = 0]
    /\ UNCHANGED <<fields, posted>>

Respond(f) ==
    /\ pc[f] = "_make_request.post"
    /\ \E outcome \in Outcomes(sessions[session[f]].connector_type) :
           RespondWith(f, outcome)

(***************************************************************************)
(* The calls a flow can make, and the flows resuming.                      *)
(***************************************************************************)
create_session(f) == Call(f, "create_session", {})

__aenter__(f) == Call(f, "__aenter__", {})

_make_request(f, requests) == Call(f, "_make_request", requests)

Resumed(f, requests) ==
    \E op \in {"create_session", "__aenter__", "_make_request"} : Resume(f, op, requests)

Step(f, proxies, requests) ==
    \/ \E proxy \in proxies : SetProxy(f, proxy)
    \/ create_session(f)
    \/ __aenter__(f)
    \/ _make_request(f, requests)
    \/ Resumed(f, requests)
    \/ Close(f)
    \/ CloseReturn(f)
    \/ Respond(f)

(***************************************************************************)
(* ContextInstanceMixin (src/avtocod/mixins.py): a current instance per    *)
(* subclass, kept in a contextvars.ContextVar.  The model follows one      *)
(* Context.                                                                *)
(***************************************************************************)
\* Number of Tokens set_current may return in one run.
MaxTokens == 3

\* The subclasses: class First(ContextInstanceMixin) and class Derived(First).
Classes == {"First", "Derived"}

\* The classes of the method resolution order of a class.
Mro(cls) == IF cls = "Derived" THEN {"Derived", "First"} ELSE {cls}

\* An instance of a class.
Object(cls) == [t |-> "object", cls |-> cls]

isinstance(value, cls) == value.t = "object" /\ cls \in Mro(value.cls)

\* Token.MISSING: the ContextVar has no value.
MISSING == [t |-> "MISSING"]

\* One ContextVar for the whole hierarchy.
SharedContextVar(cls) == "instance_First"

\* Lines 40-42: __init_subclass__ runs for every subclass, and gives each its own
\* ContextVar, named after the class.
ContextVarOf(cls) ==
    CASE cls = "First" -> "instance_First"
      [] cls = "Derived" -> "instance_Derived"

ContextVars == {ContextVarOf(cls) : cls \in Classes}

\* How a call of the mixin ended.
Gave(op, cls, value) == [exc |-> "", value |-> value, op |-> op, cls |-> cls]
Threw(op, cls, exc) == [exc |-> exc, value |-> PyNone, op |-> op, cls |-> cls]

\* Lines 51-59, got being the value of the ContextVar (lines 51-52).
Current(cls, no_error, got) ==
    IF got # MISSING
    THEN Gave("get_current", cls, got)
    ELSE IF no_error
    THEN Gave("get_current", cls, PyNone)
    ELSE Threw("get_current", cls, "LookupError")

get_current(cls, no_error) ==
    /\ current' = Current(cls, no_error, context[ContextVarOf(cls)])
    /\ UNCHANGED <<context, tokens>>

\* ContextVar.set: the Token keeps the variable and the value it had.
Token(var, old_value) == [var |-> var, old_value |-> old_value, used |-> FALSE]

\* The Token at place k of tokens, as a value.
TokenAt(k) == [t |-> "Token", k |-> k]

\* Lines 63-67, var being the ContextVar of cls.
SetIn(cls, value, var) ==
    IF ~isinstance(value, cls)
    THEN /\ current' = Threw("set_current", cls, "TypeError")
         /\ UNCHANGED <<context, tokens>>
    ELSE /\ Len(tokens) < MaxTokens
         /\ tokens' = Append(tokens, Token(var, context[var]))
         /\ context' = [context EXCEPT ![var] = value]
         /\ current' = Gave("set_current", cls, TokenAt(Len(tokens) + 1))

set_current(cls, value) == SetIn(cls, value, ContextVarOf(cls))

\* ContextVar.reset: a Token restores its variable once.
ResetRaises(var, token) ==
    IF token.used
    THEN "RuntimeError"
    ELSE IF token.var # var
    THEN "ValueError"
    ELSE ""

\* Line 71, var being the ContextVar of cls and k the Token's place in tokens.
ResetIn(cls, k, var) ==
    IF ResetRaises(var, tokens[k]) # ""
    THEN /\ current' = Threw("reset_current", cls, ResetRaises(var, tokens[k]))
         /\ UNCHANGED <<context, tokens>>
    ELSE /\ context' = [context EXCEPT ![var] = tokens[k].old_value]
         /\ tokens' = [tokens EXCEPT ![k].used = TRUE]
         /\ current' = Gave("reset_current", cls, PyNone)

reset_current(cls, k) ==
    /\ k \in DOMAIN tokens
    /\ ResetIn(cls, k, ContextVarOf(cls))

\* The values given to set_current: an instance of each class, and None.
Values == {Object(cls) : cls \in Classes} \cup {PyNone}

\* The classes are defined and nothing is set.
InitMixin ==
    /\ context = [var \in ContextVars |-> MISSING]
    /\ tokens = << >>
    /\ current = Gave("__init_subclass__", "Derived", PyNone)

NextMixin ==
    \E cls \in Classes :
        \/ \E no_error \in BOOLEAN : get_current(cls, no_error)
        \/ \E value \in Values : set_current(cls, value)
        \/ \E k \in 1..MaxTokens : reset_current(cls, k)

(***************************************************************************)
(* Inputs.                                                                 *)
(***************************************************************************)
\* Length of the longest request drawn as an input of build_data.
MaxFields == 3

Url(scheme, host, port) == <<scheme, "://", host, ":", port>>
UrlWith(scheme, username, password, host, port) ==
    <<scheme, "://", username, ":", password, "@", host, ":", port>>

Hop1 == PyStr(Url("socks5", "h1", "1080"))
Hop2 == PyStr(Url("socks5", "h2", "1080"))
Malformed == PyStr(<<"h1", ":", "1080">>)

\* The proxies of the lifecycle specifications.
Proxies == {Hop1, PyList(<< >>), Malformed}

\* The requests of the lifecycle specifications.
Requests == {<< <<"a", PyInt(1)>>, <<"b", UNSET>>, <<"c", PyNone>> >>}

\* The parts a URL is written from: a scheme with the ProxyType it names, a host, a
\* port's text with its number, and the embedded credentials (empty: none).
Parts ==
    [host : {"h1", "h2"},
     port : {<<"1080", 1080>>, <<"8080", 8080>>},
     scheme : {<<"socks5", "SOCKS5">>, <<"socks4", "SOCKS4">>, <<"http", "HTTP">>},
     credentials : {<<"", "">>, <<"user", "pass">>}]

UrlOf(parts) ==
    IF parts.credentials = <<"", "">>
    THEN Url(parts.scheme[1], parts.host, parts.port[1])
    ELSE UrlWith(parts.scheme[1], parts.credentials[1], parts.credentials[2],
                 parts.host, parts.port[1])

Auths == {BasicAuth("login", "secret")}

\* The single-proxy specifications: a URL, or a pair of a URL and a BasicAuth.
Plains == {PyStr(UrlOf(parts)) : parts \in Parts}
Pairs == {PyTuple(<<PyStr(UrlOf(parts)), auth>>) : parts \in Parts, auth \in Auths}

\* The chains: up to MaxChain hops, carried by a list or by a tuple.
Hops == {Hop1, Hop2, Malformed,
         PyTuple(<<PyStr(UrlWith("http", "user", "pass", "h1", "3128")),
                   BasicAuth("login", "secret")>>)}
HopSeqs == UNION {[1..n -> Hops] : n \in 0..MaxChain}
Chains == {PyList(hops) : hops \in HopSeqs} \cup {PyTuple(hops) : hops \in HopSeqs}

\* The 2-tuples of two URLs, the first with or without credentials.
UrlPairs == {PyTuple(<<PyStr(UrlOf(parts)), hop>>) : parts \in Parts, hop \in {Hop1, Hop2}}

\* The proxies of the resolver's specification.
AllProxies == Plains \cup Pairs \cup UrlPairs \cup Chains \cup {PyNone}

\* The chains that hold a malformed URL, at any place: the lists, and the tuples
\* that are not pairs.
FailingHopSeqs ==
    {h \in UNION {[1..n -> {Hop1, Malformed}] : n \in 1..MaxChain} :
         \E i \in DOMAIN h : h[i] = Malformed}
FailingChains ==
    {PyList(hops) : hops \in FailingHopSeqs}
        \cup {PyTuple(hops) : hops \in {h \in FailingHopSeqs : Len(h) # 2}}

\* The proxies of the setup's specification.
SetupProxies == Proxies \cup FailingChains \cup {PyNone}

\* The requests of the serializer's specification: up to MaxFields fields.
FieldNames == <<"a", "b", "c", "d", "e">>
FieldValues == {PyInt(1), UNSET, PyNone}
AllRequests ==
    UNION {{[i \in 1..n |-> <<FieldNames[i], values[i]>>] : values \in [1..n -> FieldValues]}
               : n \in 0..MaxFields}

(***************************************************************************)
(* Specifications.                                                         *)
(***************************************************************************)
\* No proxy has been assigned and no flow is suspended.
InitHistory ==
    /\ stale = 0
    /\ began = [f \in Flows |-> 0]

\* The instance is constructed where aiohttp_socks is installed.
Init ==
    /\ aiohttp_socks = TRUE
    /\ \E proxy \in Proxies \cup {PyNone} : Construct(proxy)
    /\ InitHistory
    /\ InitMixin

\* Concurrent flows on one instance.
Next ==
    /\ \E f \in Flows : Step(f, Proxies, Requests)
    /\ UNCHANGED <<aiohttp_socks, history, mixin>>

Spec == Init /\ [][Next]_vars

\* Concurrent flows on one instance, with the history of the assignments: an
\* assignment that succeeds records how many sessions exist, and a create_session
\* that suspends in close() keeps the record of its call until it resumes.  The
\* flows assign the proxy, call create_session (directly or through __aenter__)
\* and close(); a request acquires its session by the same create_session, and its
\* response changes neither the fields nor the sessions.
Recorded(f) ==
    \/ /\ \E proxy \in Proxies : SetProxy(f, proxy)
       /\ stale' = IF result'.exc = "" THEN Len(sessions) ELSE stale
       /\ UNCHANGED began
    \/ /\ create_session(f) \/ __aenter__(f)
       /\ began' = [began EXCEPT ![f] = IF pc'[f] = "idle" THEN 0 ELSE stale]
       /\ UNCHANGED stale
    \/ /\ \E op \in {"create_session", "__aenter__"} : Resume(f, op, {})
       /\ began' = [began EXCEPT ![f] = 0]
       /\ UNCHANGED stale
    \/ /\ Close(f) \/ CloseReturn(f)
       /\ UNCHANGED history

NextHistory ==
    /\ \E f \in Flows : Recorded(f)
    /\ UNCHANGED <<aiohttp_socks, mixin>>

SpecHistory == Init /\ [][NextHistory]_vars

\* A single flow on one instance.
NextSeq ==
    /\ Step(1, Proxies, Requests)
    /\ UNCHANGED <<aiohttp_socks, history, mixin>>

SpecSeq == Init /\ [][NextSeq]_vars

\* A single flow that sends every request.
NextData ==
    /\ Step(1, Proxies, AllRequests)
    /\ UNCHANGED <<aiohttp_socks, history, mixin>>

SpecData == Init /\ [][NextData]_vars

\* Every proxy given to the constructor and to the setter.
InitResolve ==
    /\ aiohttp_socks = TRUE
    /\ \E proxy \in AllProxies : Construct(proxy)
    /\ InitHistory
    /\ InitMixin

NextResolve ==
    /\ \E proxy \in AllProxies : SetProxy(1, proxy)
    /\ UNCHANGED <<aiohttp_socks, history, mixin>>

SpecResolve == InitResolve /\ [][NextResolve]_vars

\* A single flow on an instance set up with or without aiohttp_socks installed.
InitSetup ==
    /\ aiohttp_socks \in BOOLEAN
    /\ \E proxy \in SetupProxies : Construct(proxy)
    /\ InitHistory
    /\ InitMixin

NextSetup ==
    /\ Step(1, SetupProxies, Requests)
    /\ UNCHANGED <<aiohttp_socks, history, mixin>>

SpecSetup == InitSetup /\ [][NextSetup]_vars

\* The calls of ContextInstanceMixin, beside an instance that is left alone.
InitContext ==
    /\ aiohttp_socks = TRUE
    /\ Construct(PyNone)
    /\ InitHistory
    /\ InitMixin

NextContext ==
    /\ NextMixin
    /\ UNCHANGED <<aiohttp_socks, instance, history>>

SpecContext == InitContext /\ [][NextContext]_vars

(***************************************************************************)
(* Properties of the session's lifecycle.                                  *)
(***************************************************************************)
OpenSessions == {i \in DOMAIN sessions : ~sessions[i].closed}

Acquiring == {"create_session", "__aenter__", "_make_request"}

\* Flow f's call of create_session from op returns in this step.
Returns(f, op) ==
    /\ Call(f, op, Requests) \/ Resume(f, op, Requests)
    /\ pc'[f] # Closing(op)

\* The session that call returned, in the step's second state.
Got(f, op) == IF op = "_make_request" THEN session'[f] ELSE result'.value

\* C1: under every interleaving of create_session, the proxy setter and close() by
\* concurrent flows, at most one ClientSession of the instance is open, and when
\* create_session constructs a ClientSession every earlier one is already closed.
C1_AtMostOneOpen ==
    /\ [](Cardinality(OpenSessions) <= 1)
    /\ [][Len(sessions') > Len(sessions) => OpenSessions = {}]_vars

\* The instance holds its second session, the first one closed, while one flow is
\* posting and another is suspended in create_session's close().
C1_Witness ==
    /\ Len(sessions) >= 2
    /\ sessions[1].closed
    /\ ~sessions[2].closed
    /\ \E f \in Flows : pc[f] = "_make_request.post"
    /\ \E f \in Flows : pc[f] = "create_session.close"

\* C2: in a single flow, the create_session that follows a successful proxy
\* assignment made after an earlier create_session returned S (the instance's
\* session) returns another session, built from the connector class and arguments
\* the assigned proxy resolves to, and S has been closed by exactly one close().
C2_NextAcquireUsesNewProxy ==
    [][\A op \in Acquiring :
          (result = Returned("proxy", 0) /\ _session # 0 /\ Returns(1, op))
              => /\ Got(1, op) # _session
                 /\ Got(1, op) = Len(sessions')
                 /\ ~sessions'[Got(1, op)].closed
                 /\ sessions'[Got(1, op)].connector_type
                        = _prepare_connector(_proxy).value.connector_type
                 /\ sessions'[Got(1, op)].connector_init
                        = _prepare_connector(_proxy).value.connector_init
                 /\ sessions'[_session].closed
                 /\ sessions'[_session].closes = 1]_vars

\* create_session has returned the second session, built for the proxy assigned
\* after the first one, a direct session closed once, was returned.
C2_Witness ==
    /\ result = Returned("create_session", 2)
    /\ _proxy = Hop1
    /\ sessions[1].connector_type = "TCPConnector"
    /\ sessions[1].closed
    /\ sessions[1].closes = 1
    /\ sessions[2].connector_type = "ProxyConnector"
    /\ ~sessions[2].closed

\* C3: no create_session of another flow closes the session that a request in
\* flight (between its create_session and the end of its POST) is using.
C3_BorrowedSessionStaysOpen ==
    [][\A f \in Flows :
          (/\ pc[f] = "_make_request.post"
           /\ ~sessions[session[f]].closed
           /\ \E g \in Flows \ {f} : \E op \in Acquiring : Call(g, op, Requests))
              => ~sessions'[session[f]].closed]_vars

\* C4: the session create_session returns is open when it returns, whatever the
\* state it was called in and whatever the other flows did meanwhile.
C4_ReturnsOpenSession ==
    [][\A f \in Flows : \A op \in Acquiring :
          Returns(f, op) => /\ Got(f, op) \in DOMAIN sessions'
                            /\ Got(f, op) = _session'
                            /\ ~sessions'[Got(f, op)].closed]_vars

\* create_session has returned the third session, open, after two earlier ones
\* were closed, while another flow is suspended in a close().
C4_Witness ==
    /\ result.op \in {"create_session", "__aenter__"}
    /\ result.value = 3
    /\ ~sessions[3].closed
    /\ sessions[1].closed
    /\ sessions[2].closed
    /\ \E f \in Flows : pc[f] \in {"close.close", "create_session.close"}

\* C5: in a single flow close() never raises and leaves no session open, and a
\* close() that directly follows a close() changes nothing: it does not call the
\* session's close() again.
C5_CloseIdempotent ==
    /\ [](result.op = "close" => result.exc = "")
    /\ [](\A i \in DOMAIN sessions : sessions[i].closes <= 1)
    /\ [][Close(1) => OpenSessions' = {}]_vars
    /\ [][(Close(1) /\ result = Returned("close", 0))
             => UNCHANGED <<fields, pc, session, posted, result>>]_vars

\* close() has returned with the instance's session closed by one close().
C5_Witness ==
    /\ result = Returned("close", 0)
    /\ pc[1] = "idle"
    /\ _session # 0
    /\ sessions[_session].closed
    /\ sessions[_session].closes = 1
    /\ _should_reset_connector

\* C6: in a single flow a request whose POST times out raises
\* NetworkError("Request timeout error") and touches neither the instance nor its
\* sessions, and the create_session that follows it returns the same, open
\* session without constructing one.
C6_TimeoutKeepsSession ==
    /\ [][\A f \in Flows :
             RespondWith(f, TimedOut)
                 => /\ result' = Failed("_make_request", "NetworkError",
                                        <<"Request timeout error">>)
                    /\ UNCHANGED fields
                    /\ _session' \in OpenSessions']_vars
    /\ [][\A op \in Acquiring :
             (/\ result = Failed("_make_request", "NetworkError",
                                 <<"Request timeout error">>)
              /\ Returns(1, op))
                 => /\ Got(1, op) = _session
                    /\ sessions' = sessions
                    /\ ~sessions[_session].closed]_vars

\* A request has just timed out on the instance's second session, which is open.
C6_Witness ==
    /\ result = Failed("_make_request", "NetworkError", <<"Request timeout error">>)
    /\ pc[1] = "idle"
    /\ _session = 2
    /\ ~sessions[2].closed
    /\ ~_should_reset_connector

(***************************************************************************)
(* Properties of build_data.                                               *)
(***************************************************************************)
\* The keys of the members of a JSON object.
KeysOf(members) == {members[j][1] : j \in DOMAIN members}

\* The positions of the request's fields that carry a value: neither None nor UNSET.
Carried(request) == {i \in DOMAIN request : request[i][2] \notin {PyNone, UNSET}}

\* C7, as claimed: the body holds every field of the request that is not UNSET and
\* no UNSET field, so that a field given as None is told from one not given.
C7_Original ==
    posted # PyNone =>
        /\ \A i \in DOMAIN posted.request :
               posted.request[i][2] # UNSET
                   => posted.request[i][1] \in KeysOf(posted.data.json)
        /\ \A i \in DOMAIN posted.request :
               posted.request[i][2] = UNSET
                   => posted.request[i][1] \notin KeysOf(posted.data.json)

\* C7, amended: the body holds, in the request's order and each through
\* prepare_value, exactly the fields whose value is neither None nor UNSET; a field
\* given as None is left out like an UNSET one.
C7_SkipsNoneAndUnset ==
    posted # PyNone =>
        /\ Len(posted.data.json) = Cardinality(Carried(posted.request))
        /\ \A i \in DOMAIN posted.request :
               i \in Carried(posted.request)
                   <=> posted.request[i][1] \in KeysOf(posted.data.json)
        /\ \A i \in Carried(posted.request) :
               posted.data.json[Cardinality({k \in Carried(posted.request) : k <= i})]
                   = <<posted.request[i][1], prepare_value(posted.request[i][2])>>

\* The request {a: 1, b: UNSET, c: None} has been posted with the body {a: 1}.
C7_Witness ==
    /\ posted # PyNone
    /\ posted.request = << <<"a", PyInt(1)>>, <<"b", UNSET>>, <<"c", PyNone>> >>
    /\ posted.data = json_dumps(<< <<"a", prepare_value(PyInt(1))>> >>)
    /\ \E f \in Flows : pc[f] = "_make_request.post"

(***************************************************************************)
(* Properties of the proxy resolution.                                     *)
(***************************************************************************)
\* A single proxy: a URL, or a pair of a URL and a BasicAuth.
IsProxyBasic(spec) ==
    \/ spec.t = "str"
    \/ /\ spec.t = "tuple"
       /\ Len(spec.items) = 2
       /\ spec.items[1].t = "str"
       /\ spec.items[2].t = "BasicAuth"

\* A chain of one proxy or more, whatever carries it.
IsProxyChain(spec) ==
    /\ spec.t \in {"tuple", "list"}
    /\ Len(spec.items) >= 1
    /\ \A i \in DOMAIN spec.items : IsProxyBasic(spec.items[i])

\* C8, as claimed: the instance configured with a chain of N >= 1 proxies, in a
\* list or in a tuple, holds the chained connector with N entries, entry i being
\* _retrieve_basic of the chain's element i.
C8_ChainKeepsEveryHop ==
    IsProxyChain(_proxy) =>
        /\ _connector_type = "ChainProxyConnector"
        /\ Len(_connector_init.proxy_infos) = Len(_proxy.items)
        /\ \A i \in DOMAIN _proxy.items :
               _connector_init.proxy_infos[i] = _retrieve_basic(_proxy.items[i]).value

\* C9, as claimed: neither the instance nor any session it opened holds a chained
\* connector with no entry, and the instance is never configured with an empty chain.
C9_NoEmptyChain ==
    /\ ~(_proxy.t \in {"tuple", "list"} /\ _proxy.items = << >>)
    /\ _connector_type = "ChainProxyConnector" => _connector_init.proxy_infos # << >>
    /\ \A i \in DOMAIN sessions :
           sessions[i].connector_type = "ChainProxyConnector"
               => sessions[i].connector_init.proxy_infos # << >>

\* The keyword arguments expected for the parts of a URL and the credentials.
Expected(parts, credentials) ==
    [proxy_type |-> parts.scheme[2],
     host |-> parts.host,
     port |-> parts.port[2],
     username |-> credentials[1],
     password |-> credentials[2],
     rdns |-> TRUE]

\* C10: every single-proxy specification is accepted, and resolves to the URL's
\* protocol, host and port with rdns true, and to the login and password of the
\* BasicAuth when there is one, to the URL's credentials otherwise.
C10_BasicResolution ==
    /\ [](\A parts \in Parts :
             /\ _proxy = PyStr(UrlOf(parts))
                    => /\ _connector_type = "ProxyConnector"
                       /\ _connector_init = Expected(parts, parts.credentials)
             /\ \A auth \in Auths :
                    _proxy = PyTuple(<<PyStr(UrlOf(parts)), auth>>)
                        => /\ _connector_type = "ProxyConnector"
                           /\ _connector_init
                                  = Expected(parts, <<auth.login, auth.password>>))
    /\ [][\A proxy \in Plains \cup Pairs :
             SetProxy(1, proxy) => result' = Returned("proxy", 0) /\ _proxy' = proxy]_vars

\* The setter has taken a URL that embeds credentials together with a BasicAuth,
\* and the BasicAuth's credentials are the connector's.
C10_Witness ==
    /\ result = Returned("proxy", 0)
    /\ _proxy = PyTuple(<<PyStr(UrlWith("socks5", "user", "pass", "h1", "1080")),
                          BasicAuth("login", "secret")>>)
    /\ _connector_type = "ProxyConnector"
    /\ _connector_init.username = "login"
    /\ _connector_init.password = "secret"
    /\ _connector_init.host = "h1"
    /\ _connector_init.port = 1080

(***************************************************************************)
(* Properties of the request's failures.                                   *)
(***************************************************************************)
\* The failures of the transport: every raising outcome but the declared API error.
TransportFailures == {TimedOut, Refused, ProxyFailed}

\* The text tok is part of the message msg.
Mentions(msg, tok) == \E i \in DOMAIN msg : msg[i] = tok

\* C11, as claimed: every failure of the transport while a request is posted and
\* its response read ends _make_request with NetworkError, and the message of a
\* NetworkError that is not the timeout's holds the failure's class name and its
\* description.
C11_NoRawException ==
    [][\A f \in Flows : \A outcome \in TransportFailures :
          RespondWith(f, outcome)
              => /\ result'.exc = "NetworkError"
                 /\ outcome # TimedOut
                        => /\ Mentions(result'.msg, outcome.class)
                           /\ Mentions(result'.msg, outcome.text)]_vars

(***************************************************************************)
(* Properties of the setup: the constructor and the proxy setter.          *)
(***************************************************************************)
\* C12, as claimed: with None for proxy the instance holds the direct connector
\* with no arguments, whether None is given to the constructor or assigned through
\* the setter (which accepts it), and the create_session that follows returns a
\* session over a direct connector.
C12_NoneSelectsDirect ==
    /\ [](_proxy = PyNone => /\ _connector_type = "TCPConnector"
                             /\ _connector_init = EmptyDict)
    /\ [][(aiohttp_socks /\ SetProxy(1, PyNone))
             => /\ result' = Returned("proxy", 0)
                /\ _proxy' = PyNone
                /\ _connector_type' = "TCPConnector"
                /\ _connector_init' = EmptyDict]_vars
    /\ [][\A op \in Acquiring :
             (_proxy = PyNone /\ Returns(1, op))
                 => sessions'[Got(1, op)].connector_type = "TCPConnector"]_vars

\* C15: an assignment of the proxy that raises leaves the instance as it was: the
\* proxy, the connector class and its arguments, the flag, the session and every
\* session constructed; and the assignment of a malformed URL, or of a chain that
\* holds one at any place, raises.
C15_FailedAssignmentKeepsState ==
    /\ [][\A proxy \in SetupProxies :
             (SetProxy(1, proxy) /\ result'.exc # "")
                 => UNCHANGED <<fields, pc, session, posted>>]_vars
    /\ [][\A proxy \in {Malformed} \cup FailingChains :
             SetProxy(1, proxy) => result'.op = "proxy" /\ result'.exc # ""]_vars

\* An assignment has just raised ValueError on an instance that keeps its proxy,
\* its open session and its clear flag.
C15_Witness ==
    /\ aiohttp_socks
    /\ result = Failed("proxy", "ValueError", << >>)
    /\ _proxy = Hop1
    /\ _connector_type = "ProxyConnector"
    /\ _session = 2
    /\ ~sessions[2].closed
    /\ ~_should_reset_connector

\* C17, as claimed: where aiohttp_socks is not installed, giving a proxy to the
\* constructor or assigning one through the setter raises the configuration error
\* (RuntimeError), never ImportError, and constructs no session.
C17_MissingLibraryIsConfigurationError ==
    /\ []((~aiohttp_socks /\ result.op = "__init__" /\ result.exc # "")
             => result.exc = "RuntimeError" /\ sessions = << >>)
    /\ [][\A proxy \in SetupProxies \ {PyNone} :
             (~aiohttp_socks /\ SetProxy(1, proxy))
                 => /\ result'.exc = "RuntimeError"
                    /\ UNCHANGED fields]_vars

(***************************************************************************)
(* Properties of the shape of the proxy.                                   *)
(***************************************************************************)
\* The shape that stands for one proxy: a str, or a tuple of two elements.
SingleShape(spec) == spec.t = "str" \/ (spec.t = "tuple" /\ Len(spec.items) = 2)

C14_AssignmentLeavesSession ==
    /\ [][\A f \in Flows : \A proxy \in Proxies :
             (SetProxy(f, proxy) /\ result'.exc = "")
                 => /\ _should_reset_connector'
                    /\ _proxy' = proxy
                    /\ _connector_type' = _prepare_connector(proxy).value.connector_type
                    /\ _connector_init' = _prepare_connector(proxy).value.connector_init
                    /\ UNCHANGED <<_session, sessions>>]_vars
    /\ []((result.op = "__init__" /\ posted = PyNone)
             => sessions = << >> /\ _session = 0)
    /\ [][Len(sessions') > Len(sessions)
             => \E f \in Flows : \E op \in Acquiring :
                    /\ Returns(f, op)
                    /\ Got(f, op) = Len(sessions')]_vars

\* The setter has returned while a request is posted on the instance's open
\* session, a direct one: the flag is set and the session is as it was.
C14_Witness ==
    /\ result = Returned("proxy", 0)
    /\ _proxy = Hop1
    /\ _connector_type = "ProxyConnector"
    /\ _should_reset_connector
    /\ _session = 1
    /\ Len(sessions) = 1
    /\ sessions[1].connector_type = "TCPConnector"
    /\ ~sessions[1].closed
    /\ \E f \in Flows : pc[f] = "_make_request.post" /\ session[f] = 1

\* C16: a session goes from open to closed only in a step of close(), or of a
\* create_session called with the flag set; a create_session called with the flag
\* clear closes no session, and the end of a request, whatever its outcome, leaves
\* every session as it was.
C16_ClosedOnlyByCloseOrReset ==
    /\ [][(\E i \in DOMAIN sessions : ~sessions[i].closed /\ sessions'[i].closed)
             => \E f \in Flows :
                    \/ Close(f)
                    \/ /\ _should_reset_connector
                       /\ \E op \in Acquiring : Call(f, op, Requests)]_vars
    /\ [][\A f \in Flows : \A op \in Acquiring :
             (~_should_reset_connector /\ Call(f, op, Requests))
                 => \A i \in DOMAIN sessions : sessions'[i].closed = sessions[i].closed]_vars
    /\ [][\A f \in Flows : Respond(f) => sessions' = sessions]_vars

\* A request has failed on a session that stayed open, until a create_session
\* called with the flag set closed it: that call is suspended in close().
C16_Witness ==
    /\ result.op = "_make_request"
    /\ result.exc = "NetworkError"
    /\ _should_reset_connector
    /\ _session = 1
    /\ sessions[1].closed
    /\ sessions[1].closes = 1
    /\ \E f \in Flows : pc[f] = "create_session.close"

\* C18: under every interleaving, the session a create_session returns was
\* constructed after the latest assignment of the proxy that had succeeded when
\* that create_session was called (it is none of the sessions that existed at that
\* assignment), and a session is constructed from the connector class and
\* arguments stored at its construction: the session returned is built from that
\* assignment's configuration or from a later one.
C18_NeverOlderConfiguration ==
    /\ [][\A f \in Flows : \A op \in {"create_session", "__aenter__"} :
             /\ (Call(f, op, {}) /\ pc'[f] = "idle") => Got(f, op) > stale
             /\ Resume(f, op, {}) => Got(f, op) > began[f]]_vars
    /\ [][Len(sessions') > Len(sessions)
             => /\ sessions'[Len(sessions')].connector_type = _connector_type
                /\ sessions'[Len(sessions')].connector_init = _connector_init]_vars

\* A create_session called when one session had been constructed before the
\* latest assignment has returned the third session, after other flows assigned the
\* proxy again and constructed the second; another flow is suspended in its own
\* create_session, called after that later assignment.
C18_Witness ==
    /\ result = Returned("create_session", 3)
    /\ ~sessions[3].closed
    /\ stale = 2
    /\ \E f \in Flows : pc[f] = "__aenter__.close" /\ began[f] = 2

\* C19: while the flag is clear the instance has a session, constructed from the
\* connector class and arguments the instance stores; the flag is set after the
\* constructor and after every assignment that succeeds, and goes from set to clear
\* only in a step of create_session that constructs a session.
C19_ClearFlagMeansCurrentSession ==
    /\ [](~_should_reset_connector
             => /\ _session \in DOMAIN sessions
                /\ sessions[_session].connector_type = _connector_type
                /\ sessions[_session].connector_init = _connector_init)
    /\ []((result.op = "__init__" /\ posted = PyNone) => _should_reset_connector)
    /\ [][\A f \in Flows : \A proxy \in Proxies :
             (SetProxy(f, proxy) /\ result'.exc = "") => _should_reset_connector']_vars
    /\ [][(_should_reset_connector /\ ~_should_reset_connector')
             => /\ Len(sessions') = Len(sessions) + 1
                /\ _session' = Len(sessions')
                /\ \E f \in Flows : \E op \in Acquiring : Returns(f, op)]_vars

\* The flag is clear and the instance's session, the second one, built for the
\* proxy assigned after the first, has been closed by close().
C19_Witness ==
    /\ ~_should_reset_connector
    /\ result = Returned("close", 0)
    /\ _session = 2
    /\ sessions[2].closed
    /\ _proxy = Hop1
    /\ sessions[2].connector_type = "ProxyConnector"
    /\ sessions[1].connector_type = "TCPConnector"

(***************************************************************************)
(* Properties of ContextInstanceMixin.                                     *)
(***************************************************************************)
\* What cls.get_current() returns in the current state.
Answer(cls) == Current(cls, TRUE, context[ContextVarOf(cls)]).value

\* The values that are not instances of a class: None for both, and an instance of
\* First for its subclass Derived.
NotInstances == {<<"First", PyNone>>, <<"Derived", PyNone>>, <<"Derived", Object("First")>>}

\* C20: each subclass has its own current instance.  While no set_current has
\* succeeded, get_current returns None, and raises LookupError when no_error is
\* false; set_current of a value that is not an instance of the class raises
\* TypeError and changes nothing; after a set_current(v) that succeeds the class's
\* get_current returns v, the Token returned keeps the value held before, and
\* reset_current of that Token gives the class that value back; a set_current on one
\* class leaves what get_current returns for the other class as it was.
C20_CurrentInstancePerSubclass ==
    /\ [](tokens = << >> => \A cls \in Classes : Answer(cls) = PyNone)
    /\ [][\A cls \in Classes : \A no_error \in BOOLEAN :
             (get_current(cls, no_error) /\ context[ContextVarOf(cls)] = MISSING)
                 => current' = IF no_error
                               THEN Gave("get_current", cls, PyNone)
                               ELSE Threw("get_current", cls, "LookupError")]_vars
    /\ [][\A cls \in Classes : \A value \in Values :
             set_current(cls, value)
                 => IF <<cls, value>> \in NotInstances
                    THEN /\ current' = Threw("set_current", cls, "TypeError")
                         /\ UNCHANGED <<context, tokens>>
                    ELSE /\ current' = Gave("set_current", cls, TokenAt(Len(tokens')))
                         /\ Len(tokens') = Len(tokens) + 1
                         /\ Answer(cls)' = value
                         /\ tokens'[Len(tokens')].old_value
                                = IF Answer(cls) = PyNone THEN MISSING ELSE Answer(cls)
                         /\ \A other \in Classes \ {cls} : Answer(other)' = Answer(other)]_vars
    /\ [][\A cls \in Classes : \A k \in DOMAIN tokens :
             (reset_current(cls, k) /\ current'.exc = "")
                 => /\ Answer(cls)' = IF tokens[k].old_value = MISSING
                                      THEN PyNone
                                      ELSE tokens[k].old_value
                    /\ \A other \in Classes \ {cls} : Answer(other)' = Answer(other)]_vars

\* First and Derived were both given the same instance of Derived, and Derived's
\* Token has been reset: Derived has no current instance and First keeps its own.
C20_Witness ==
    /\ current = Gave("reset_current", "Derived", PyNone)
    /\ Len(tokens) = 2
    /\ tokens[1].var = "instance_First"
    /\ ~tokens[1].used
    /\ tokens[2].var = "instance_Derived"
    /\ tokens[2].used
    /\ context["instance_First"] = Object("Derived")
    /\ context["instance_Derived"] = MISSING

====
